---- MODULE Spec2Model ----
(***************************************************************************)
(* State-vector quantum simulator (quantum_simulator.cpp/.hpp).            *)
(*                                                                         *)
(* Amplitudes are std::complex<double>.  A double is modelled bit-for-bit  *)
(* as an IEEE-754 binary64 value: sign, 53-bit significand, exponent, with *)
(* every product and sum rounded to nearest, ties to even.  Significands   *)
(* do not fit the model checker's integers, so they are kept as four limbs *)
(* of 14 bits (least significant first).  The two zeros +0.0 and -0.0      *)
(* compare equal in C++ and are one value here; infinities, NaNs and       *)
(* subnormals are out of reach of the bounded runs (all magnitudes stay    *)
(* between 2^-200 and 2).                                                  *)
(***************************************************************************)
EXTENDS Integers, Sequences, FiniteSets, TLC

\* ------------------------------------------------------------------------
\* double: (-1)^neg * m * 2^e.  m is the 53-bit significand in four limbs of
\* 14 bits, least significant first (m = 0, or 2^52 <= m < 2^53, so the top
\* limb lies in 1024..2047).  Exact intermediate results are eight limbs wide.
\* ------------------------------------------------------------------------
LimbBits == 14
MantBits == 53
B == 16384

Pow2Tab == <<1, 2, 4, 8, 16, 32, 64, 128, 256, 512, 1024, 2048, 4096, 8192, 16384>>
P2(k) == Pow2Tab[k + 1]

RECURSIVE IntBitLen(_)
IntBitLen(v) == IF v = 0 THEN 0 ELSE 1 + IntBitLen(v \div 2)

\* limb k of w, zero outside w
Lw(w, k) == IF k >= 1 /\ k <= Len(w) THEN w[k] ELSE 0

Limb4Zero == <<0, 0, 0, 0>>

\* w * 2^s, eight limbs
Shl(w, s) ==
    [k \in 1..8 |->
        ((Lw(w, k - (s \div LimbBits)) * P2(s % LimbBits)) % B)
        + ((Lw(w, k - (s \div LimbBits) - 1) * P2(s % LimbBits)) \div B)]

\* floor(w / 2^s), four limbs
Shr(w, s) ==
    [k \in 1..4 |->
        (Lw(w, k + (s \div LimbBits)) \div P2(s % LimbBits))
        + ((Lw(w, k + (s \div LimbBits) + 1) % P2(s % LimbBits))
           * P2(LimbBits - (s % LimbBits)))]

\* bit t of w
BitOfWide(w, t) == (Lw(w, (t \div LimbBits) + 1) \div P2(t % LimbBits)) % 2

\* no bit of w below position t is set
LowZero(w, t) ==
    /\ \A k \in 1..(t \div LimbBits) : Lw(w, k) = 0
    /\ Lw(w, (t \div LimbBits) + 1) % P2(t % LimbBits) = 0

RECURSIVE TopLimb(_, _)
TopLimb(w, k) == IF k = 0 THEN 0 ELSE IF w[k] # 0 THEN k ELSE TopLimb(w, k - 1)

LimbLen(w, k) == IF k = 0 THEN 0 ELSE LimbBits * (k - 1) + IntBitLen(w[k])

BitLen(w) == LimbLen(w, TopLimb(w, 8))

\* limb sums with their carries, lowest limb first
RECURSIVE AddFrom(_, _, _, _)
AddFrom(a, b, k, c) ==
    IF k > 8 THEN <<>>
    ELSE <<(a[k] + Lw(b, k) + c) % B>> \o AddFrom(a, b, k + 1, (a[k] + Lw(b, k) + c) \div B)

Add8(a, b) == AddFrom(a, b, 1, 0)

\* a - b for a >= b
RECURSIVE SubFrom(_, _, _, _)
SubFrom(a, b, k, c) ==
    IF k > 8 THEN <<>>
    ELSE <<(a[k] - Lw(b, k) - c + B) % B>>
         \o SubFrom(a, b, k + 1, IF a[k] - Lw(b, k) - c < 0 THEN 1 ELSE 0)

Sub8(a, b) == SubFrom(a, b, 1, 0)

\* a < b on eight limbs
RECURSIVE LessFrom(_, _, _)
LessFrom(a, b, k) ==
    IF k = 0 THEN FALSE
    ELSE IF a[k] # b[k] THEN a[k] < b[k]
    ELSE LessFrom(a, b, k - 1)

Less8(a, b) == LessFrom(a, b, 8)

\* st = <<limbs so far, carry>>; col is the next column sum
MulStep(st, col) == <<Append(st[1], (col + st[2]) % B), (col + st[2]) \div B>>

MulEnd(st) == Append(st[1], st[2])

\* the exact product of two significands: the columns of the schoolbook
\* product, each with the carry of the column below
Mul4(a, b) ==
    MulEnd(
    MulStep(
    MulStep(
    MulStep(
    MulStep(
    MulStep(
    MulStep(
    MulStep(<<<<>>, 0>>,
            a[1] * b[1]),
            a[1] * b[2] + a[2] * b[1]),
            a[1] * b[3] + a[2] * b[2] + a[3] * b[1]),
            a[1] * b[4] + a[2] * b[3] + a[3] * b[2] + a[4] * b[1]),
            a[2] * b[4] + a[3] * b[3] + a[4] * b[2]),
            a[3] * b[4] + a[4] * b[3]),
            a[4] * b[4]))

RECURSIVE IncFrom(_, _, _)
IncFrom(q, k, c) ==
    IF k = 4 THEN <<q[4] + c>>
    ELSE <<(q[k] + c) % B>> \o IncFrom(q, k + 1, (q[k] + c) \div B)

Inc4(q) == IncFrom(q, 1, 1)

FZero == [neg |-> FALSE, m |-> Limb4Zero, e |-> 0]

IsZero(v) == v.m = Limb4Zero

\* a significand that carried out to 2^53 is 2^52 one exponent up
Carried(neg, q, e) ==
    IF q[4] >= 2048
    THEN [neg |-> neg, m |-> <<0, 0, 0, 1024>>, e |-> e + 1]
    ELSE [neg |-> neg, m |-> <<q[1], q[2], q[3], q[4]>>, e |-> e]

\* w has s bits too many: drop them, to nearest, ties to even
RoundBits(neg, w, e, s) ==
    Carried(neg,
            IF /\ BitOfWide(w, s - 1) = 1
               /\ (~LowZero(w, s - 1) \/ BitOfWide(w, s) = 1)
            THEN Inc4(Shr(w, s)) ELSE Shr(w, s),
            e + s)

RoundLen(neg, w, e, len) ==
    IF len = 0 THEN FZero
    ELSE IF len <= MantBits
    THEN Carried(neg, Shl(w, MantBits - len), e - (MantBits - len))
    ELSE RoundBits(neg, w, e, len - MantBits)

\* round-to-nearest, ties-to-even, of (-1)^neg * w * 2^e
Round(neg, w, e) == RoundLen(neg, w, e, BitLen(w))

FNeg(v) == IF IsZero(v) THEN v ELSE [v EXCEPT !.neg = ~v.neg]

\* a factor +-2^k only moves the exponent
IsPow2(v) == v.m = <<0, 0, 0, 1024>>

FMul(u, v) ==
    IF IsZero(u) \/ IsZero(v) THEN FZero
    ELSE IF IsPow2(u) THEN [neg |-> u.neg # v.neg, m |-> v.m, e |-> u.e + v.e + (MantBits - 1)]
    ELSE IF IsPow2(v) THEN [neg |-> u.neg # v.neg, m |-> u.m, e |-> u.e + v.e + (MantBits - 1)]
    ELSE Round(u.neg # v.neg, Mul4(u.m, v.m), u.e + v.e)

\* the exact signed sum of a and of b (limbs at one exponent)
SignedSum(aneg, a, bneg, b) ==
    IF aneg = bneg THEN [neg |-> aneg, w |-> Add8(a, b)]
    ELSE IF Less8(a, Shl(b, 0)) THEN [neg |-> bneg, w |-> Sub8(Shl(b, 0), a)]
    ELSE [neg |-> aneg, w |-> Sub8(a, b)]

RoundSum(sum, e) == Round(sum.neg, sum.w, e)

\* hi.e >= lo.e.  The aligned sum is exact, with one rounding at the end; an
\* addend more than 55 binary places below the other cannot move the result.
AddOrdered(hi, lo) ==
    IF hi.e - lo.e > MantBits + 2 THEN hi
    ELSE RoundSum(SignedSum(hi.neg, Shl(hi.m, hi.e - lo.e), lo.neg, lo.m), lo.e)

FAdd(u, v) ==
    IF IsZero(u) THEN v
    ELSE IF IsZero(v) THEN u
    ELSE AddOrdered(IF u.e >= v.e THEN u ELSE v, IF u.e >= v.e THEN v ELSE u)

FSub(u, v) == FAdd(u, FNeg(v))

\* |u| <= |v| for nonzero u, v: significands are normalised, so the exponent
\* decides first
MagLeq(u, v) == u.e < v.e \/ (u.e = v.e /\ ~LessFrom(v.m, u.m, 4))

\* u <= v
FLeq(u, v) ==
    IF IsZero(u) THEN IsZero(v) \/ ~v.neg
    ELSE IF IsZero(v) THEN u.neg
    ELSE IF u.neg # v.neg THEN u.neg
    ELSE IF u.neg THEN MagLeq(v, u)
    ELSE MagLeq(u, v)

\* ------------------------------------------------------------------------
\* size_t values too wide for the model checker's integers: limb sequences
\* ------------------------------------------------------------------------
\* the size_t value i (an index, below 2^28), eight limbs
Wide(i) == <<i % B, i \div B, 0, 0, 0, 0, 0, 0>>

\* bitwise OR of two limbs
RECURSIVE OrInt(_, _)
OrInt(u, v) ==
    IF u = 0 THEN v
    ELSE IF v = 0 THEN u
    ELSE (IF u % 2 = 1 \/ v % 2 = 1 THEN 1 ELSE 0) + 2 * OrInt(u \div 2, v \div 2)

Or8(a, b) == [k \in 1..8 |-> OrInt(a[k], b[k])]

\* a wide value known to be below 2^28, as an integer
Narrow(a) == a[1] + B * a[2]

RECURSIVE Pow2(_)
Pow2(k) == IF k = 0 THEN 1 ELSE 2 * Pow2(k - 1)

\* ------------------------------------------------------------------------
\* double constants and the libm values the gate library uses
\* ------------------------------------------------------------------------
One == [neg |-> FALSE, m |-> <<0, 0, 0, 1024>>, e |-> -52]

\* x / 2.0 (exact)
FHalf(x) == IF IsZero(x) THEN x ELSE [x EXCEPT !.e = @ - 1]

\* 1.0 / std::sqrt(2.0) = 0x1.6a09e667f3bccp-1
InvSqrt2 == [neg |-> FALSE, m |-> <<15308, 6652, 2534, 1448>>, e |-> -53]

\* the rotation angle the model draws: 2.1 = 0x1.0cccccccccccdp+1
Theta21 == [neg |-> FALSE, m |-> <<3277, 13107, 3276, 1075>>, e |-> -51]

Thetas == {Theta21}

FAbs(x) == [x EXCEPT !.neg = FALSE]

\* std::cos / std::sin on the arguments that occur (theta / 2 for theta in
\* Thetas, either sign): cos(1.05) = 0x1.fd8343c886923p-2,
\* sin(1.05) = 0x1.bc1ee5a36f2c1p-1; cos is even and sin is odd.
Cos105 == [neg |-> FALSE, m |-> <<10531, 12833, 835, 2038>>, e |-> -54]
Sin105 == [neg |-> FALSE, m |-> <<12993, 10459, 7909, 1776>>, e |-> -53]

StdCos(x) == CASE FAbs(x) = FHalf(Theta21) -> Cos105

StdSin(x) == CASE FAbs(x) = FHalf(Theta21) -> IF x.neg THEN FNeg(Sin105) ELSE Sin105

\* ------------------------------------------------------------------------
\* Complex = std::complex<double>
\* ------------------------------------------------------------------------
Complex(re, im) == [re |-> re, im |-> im]

CZero == Complex(FZero, FZero)
COne == Complex(One, FZero)
Real(x) == Complex(x, FZero)

\* (adding 0 or multiplying by 0 is exact: x + 0 = x, x * 0 = 0)
CAdd(x, y) ==
    IF x = CZero THEN y
    ELSE IF y = CZero THEN x
    ELSE Complex(FAdd(x.re, y.re), FAdd(x.im, y.im))

CMul(x, y) ==
    IF x = CZero \/ y = CZero THEN CZero
    ELSE Complex(FSub(FMul(x.re, y.re), FMul(x.im, y.im)),
            FAdd(FMul(x.re, y.im), FMul(x.im, y.re)))

\* std::norm
StdNorm(z) == FAdd(FMul(z.re, z.re), FMul(z.im, z.im))

\* std::exp(Complex(0, y)) = (cos y, sin y)
StdExpI(y) == Complex(StdCos(y), StdSin(y))

\* ------------------------------------------------------------------------
\* Gates: Gate = Eigen::Matrix2cd, rows of the 2x2 matrix
\* ------------------------------------------------------------------------
GateOf(g00, g01, g10, g11) == <<<<g00, g01>>, <<g10, g11>>>>

G(gate, r, c) == gate[r + 1][c + 1]

\* variant with a sign on the lower-left entry
pauli_x_signed == GateOf(CZero, COne, Real(FNeg(One)), CZero)

pauli_x == GateOf(CZero, COne, COne, CZero)

pauli_y == GateOf(CZero, Complex(FZero, FNeg(One)), Complex(FZero, One), CZero)

pauli_z == GateOf(COne, CZero, CZero, Real(FNeg(One)))

\* variant without the 1/sqrt(2) factor
hadamard_unscaled == GateOf(COne, COne, COne, Real(FNeg(One)))

hadamard ==
    LET inv_sqrt2 == InvSqrt2
    IN  GateOf(Real(inv_sqrt2), Real(inv_sqrt2), Real(inv_sqrt2), Real(FNeg(inv_sqrt2)))

Gates_rx(theta) ==
    LET cos_half == StdCos(FHalf(theta))
        sin_half == StdSin(FHalf(theta))
    IN  GateOf(Real(cos_half), Complex(FZero, FNeg(sin_half)),
               Complex(FZero, FNeg(sin_half)), Real(cos_half))

Gates_ry(theta) ==
    LET cos_half == StdCos(FHalf(theta))
        sin_half == StdSin(FHalf(theta))
    IN  GateOf(Real(cos_half), Real(FNeg(sin_half)), Real(sin_half), Real(cos_half))

Gates_rz(theta) ==
    LET exp_neg == StdExpI(FHalf(FNeg(theta)))
        exp_pos == StdExpI(FHalf(theta))
    IN  GateOf(exp_neg, CZero, CZero, exp_pos)

\* ------------------------------------------------------------------------
\* Bounds and input sets
\* ------------------------------------------------------------------------
MaxQubits == 2
MaxCalls == 3
MaxOps == 3
MaxRuns == 2
MaxGhzQubits == 4

\* size_t is 64 bits wide; a shift by 64 or more is undefined and is not drawn
WordBits == 64

\* qubit arguments: every in-range index, the first out-of-range one and the
\* largest one a 64-bit shift accepts
QubitArgs(n) == (0..n) \cup {WordBits - 1}

SingleGates ==
    {pauli_x, pauli_y, pauli_z, hadamard}
    \cup {Gates_rx(t) : t \in Thetas}
    \cup {Gates_ry(t) : t \in Thetas}
    \cup {Gates_rz(t) : t \in Thetas}

ControlledGates == {pauli_x, pauli_y, hadamard}

VARIABLES
    num_qubits_,      \* QuantumState::num_qubits_
    amplitudes_,      \* QuantumState::amplitudes_, indexed 0 .. size-1
    old,              \* amplitudes_ as the last call found it
    last,             \* the last call on the state object and what it did
    ncalls,           \* calls made on the state object
    repeat,           \* the last call repeated the call before it
    circuit_qubits,   \* QuantumCircuit::num_qubits_
    operations_,      \* QuantumCircuit::operations_
    built,            \* the last constructor or builder call on the circuit
    returned,         \* the state the latest execute() returned
    earlier,          \* the state the execute() before that returned
    exec_log,         \* the calls the latest execute() made, in order
    exec_trace,       \* the amplitude vector after each of those calls
    nruns             \* execute() calls since the last builder call

state_vars == <<num_qubits_, amplitudes_, old, last, ncalls, repeat>>
circuit_vars ==
    <<circuit_qubits, operations_, built, returned, earlier, exec_log, exec_trace, nruns>>
vars == <<state_vars, circuit_vars>>

\* ------------------------------------------------------------------------
\* QuantumState
\* ------------------------------------------------------------------------
Size(amps) == Cardinality(DOMAIN amps)

\* variant without amplitudes_(0) = Complex(1.0, 0.0)
QuantumStateAllZero(num_qubits) ==
    LET size == Pow2(num_qubits)
    IN  [i \in 0..(size - 1) |-> CZero]

QuantumState(num_qubits) ==
    LET size == Pow2(num_qubits)
        zero == [i \in 0..(size - 1) |-> CZero]
    IN  [zero EXCEPT ![0] = COne]

\* (i >> k) & 1 on size_t
BitAt(i, k) == BitOfWide(Wide(i), k)

\* i | (1ULL << k) on size_t
WithBit(i, k) == Or8(Wide(i), Shl(<<1>>, k))

\* gate(r, 0) * amp0 + gate(r, 1) * amp1 for r = 0, 1
Rows(gate, amp0, amp1) ==
    [r \in {0, 1} |-> CAdd(CMul(G(gate, r, 0), amp0), CMul(G(gate, r, 1), amp1))]

\* the two writes, in the order of lines 28-29 / 49-50
WritePair(acc, rows, i, j) ==
    [new    |-> [acc.new EXCEPT ![i] = rows[0], ![j] = rows[1]],
     writes |-> [acc.writes EXCEPT ![i] = @ + 1, ![j] = @ + 1]]

\* in-place variant: the second write reads the amplitude the first has
\* just overwritten
UpdatePairInPlace(acc, amps, gate, i, j) ==
    LET new0 == CAdd(CMul(G(gate, 0, 0), amps[i]), CMul(G(gate, 0, 1), amps[j]))
        new1 == CAdd(CMul(G(gate, 1, 0), new0), CMul(G(gate, 1, 1), amps[j]))
    IN  WritePair(acc, [r \in {0, 1} |-> IF r = 0 THEN new0 ELSE new1], i, j)

\* lines 25-29 / 46-50: both reads, then both writes into new_amplitudes
UpdatePair(acc, amps, gate, i, j) == WritePair(acc, Rows(gate, amps[i], amps[j]), i, j)

NoWrites(amps) == [i \in DOMAIN amps |-> 0]

RECURSIVE SingleGateLoop(_, _, _, _, _)
SingleGateLoop(amps, gate, qubit, i, acc) ==
    IF ~(i < Size(amps)) THEN acc
    ELSE LET j == WithBit(i, qubit)
             next ==
                 IF BitAt(i, qubit) = 0 /\ Less8(j, Wide(Size(amps)))
                 THEN UpdatePair(acc, amps, gate, i, Narrow(j))
                 ELSE acc
         IN  SingleGateLoop(amps, gate, qubit, i + 1, next)

\* the new amplitudes_ and, per index, how often the call wrote it
apply_single_gate(amps, gate, qubit) ==
    SingleGateLoop(amps, gate, qubit, 0, [new |-> amps, writes |-> NoWrites(amps)])

\* variant without the test of the target bit
RECURSIVE ControlledGateLoopAnyTarget(_, _, _, _, _, _)
ControlledGateLoopAnyTarget(amps, gate, control, target, i, acc) ==
    IF ~(i < Size(amps)) THEN acc
    ELSE LET j == WithBit(i, target)
             next ==
                 IF /\ BitAt(i, control) = 1
                    /\ Less8(j, Wide(Size(amps)))
                 THEN UpdatePair(acc, amps, gate, i, Narrow(j))
                 ELSE acc
         IN  ControlledGateLoopAnyTarget(amps, gate, control, target, i + 1, next)

RECURSIVE ControlledGateLoop(_, _, _, _, _, _)
ControlledGateLoop(amps, gate, control, target, i, acc) ==
    IF ~(i < Size(amps)) THEN acc
    ELSE LET j == WithBit(i, target)
             next ==
                 IF /\ BitAt(i, control) = 1
                    /\ BitAt(i, target) = 0
                    /\ Less8(j, Wide(Size(amps)))
                 THEN UpdatePair(acc, amps, gate, i, Narrow(j))
                 ELSE acc
         IN  ControlledGateLoop(amps, gate, control, target, i + 1, next)

\* variant that ignores the control qubit
apply_gate_uncontrolled(amps, gate, control, target) ==
    apply_single_gate(amps, gate, target)

apply_controlled_gate(amps, gate, control, target) ==
    ControlledGateLoop(amps, gate, control, target, 0,
                       [new |-> amps, writes |-> NoWrites(amps)])

\* variant that squares the real part only
get_probability_real(amps, state) ==
    IF state < Size(amps) THEN FMul(amps[state].re, amps[state].re) ELSE FZero

get_probability(amps, state) ==
    IF state < Size(amps) THEN StdNorm(amps[state]) ELSE FZero

\* ------------------------------------------------------------------------
\* Calls on one QuantumState object
\* ------------------------------------------------------------------------
NoCall ==
    [fn |-> "none", gate |-> <<>>, qubit |-> 0, control |-> 0, target |-> 0,
     state |-> 0, result |-> FZero, writes |-> <<>>]

\* the call now made is the call the object saw last, argument for argument
SameCall(call, fn, gate, qubit, control, target, state) ==
    /\ call.fn = fn
    /\ call.gate = gate
    /\ call.qubit = qubit
    /\ call.control = control
    /\ call.target = target
    /\ call.state = state

\* amplitudes_ = new_amplitudes (lines 34 / 56), and the record of the call
Applies(r, call) ==
    /\ amplitudes_' = r.new
    /\ last' = [call EXCEPT !.writes = r.writes]

NewState ==
    \E num_qubits \in 0..MaxQubits :
        /\ last.fn = "none"
        /\ num_qubits_' = num_qubits
        /\ amplitudes_' = QuantumState(num_qubits)
        /\ old' = amplitudes_
        /\ last' = [NoCall EXCEPT !.fn = "QuantumState"]
        /\ UNCHANGED <<ncalls, repeat, circuit_vars>>

ApplySingleGate ==
    \E gate \in SingleGates, qubit \in QubitArgs(num_qubits_) :
        /\ last.fn # "none"
        /\ ncalls < MaxCalls
        /\ Applies(apply_single_gate(amplitudes_, gate, qubit),
                   [NoCall EXCEPT !.fn = "apply_single_gate", !.gate = gate,
                                  !.qubit = qubit])
        /\ repeat' = SameCall(last, "apply_single_gate", gate, qubit, 0, 0, 0)
        /\ old' = amplitudes_
        /\ ncalls' = ncalls + 1
        /\ UNCHANGED <<num_qubits_, circuit_vars>>

ApplyControlledGate ==
    \E gate \in ControlledGates,
       control \in QubitArgs(num_qubits_), target \in QubitArgs(num_qubits_) :
        /\ last.fn # "none"
        /\ ncalls < MaxCalls
        /\ Applies(apply_controlled_gate(amplitudes_, gate, control, target),
                   [NoCall EXCEPT !.fn = "apply_controlled_gate", !.gate = gate,
                                  !.control = control, !.target = target])
        /\ repeat' = SameCall(last, "apply_controlled_gate", gate, 0, control, target, 0)
        /\ old' = amplitudes_
        /\ ncalls' = ncalls + 1
        /\ UNCHANGED <<num_qubits_, circuit_vars>>

GetProbability ==
    \E state \in 0..(Size(amplitudes_) + 1) :
        /\ last.fn # "none"
        /\ ncalls < MaxCalls
        /\ last' = [NoCall EXCEPT !.fn = "get_probability", !.state = state,
                                  !.result = get_probability(amplitudes_, state)]
        /\ repeat' = SameCall(last, "get_probability", <<>>, 0, 0, 0, state)
        /\ old' = amplitudes_
        /\ ncalls' = ncalls + 1
        /\ UNCHANGED <<num_qubits_, amplitudes_, circuit_vars>>

\* ------------------------------------------------------------------------
\* QuantumCircuit
\* ------------------------------------------------------------------------
Operation(type, gate, qubit, control, target) ==
    [type |-> type, gate |-> gate, qubit |-> qubit, control |-> control, target |-> target]

NoState == [num_qubits_ |-> 0, amplitudes_ |-> <<>>]

NoBuild == [fn |-> "none", qubit |-> 0, theta |-> FZero, control |-> 0, target |-> 0]

\* the builders draw in-range qubit indices
BuilderQubits == 0..(circuit_qubits - 1)

push_back(ops, op) == Append(ops, op)

\* a builder call: one push_back; the driver lets go of the states it holds
Build(call, op) ==
    /\ built.fn \notin {"none", "benchmark_ghz_state"}
    /\ Len(operations_) < MaxOps
    /\ operations_' = push_back(operations_, op)
    /\ built' = call
    /\ returned' = NoState
    /\ earlier' = NoState
    /\ exec_log' = <<>>
    /\ exec_trace' = <<>>
    /\ nruns' = 0
    /\ UNCHANGED <<circuit_qubits, state_vars>>

NewCircuit ==
    \E num_qubits \in 0..MaxQubits :
        /\ built.fn = "none"
        /\ circuit_qubits' = num_qubits
        /\ operations_' = <<>>
        /\ built' = [NoBuild EXCEPT !.fn = "QuantumCircuit"]
        /\ UNCHANGED <<returned, earlier, exec_log, exec_trace, nruns, state_vars>>

\* the operation h(qubit) appends
h_operation(qubit) == Operation("SINGLE_GATE", hadamard, qubit, 0, 0)

h ==
    \E qubit \in BuilderQubits :
        Build([NoBuild EXCEPT !.fn = "h", !.qubit = qubit], h_operation(qubit))

x ==
    \E qubit \in BuilderQubits :
        Build([NoBuild EXCEPT !.fn = "x", !.qubit = qubit],
              Operation("SINGLE_GATE", pauli_x, qubit, 0, 0))

y ==
    \E qubit \in BuilderQubits :
        Build([NoBuild EXCEPT !.fn = "y", !.qubit = qubit],
              Operation("SINGLE_GATE", pauli_y, qubit, 0, 0))

z ==
    \E qubit \in BuilderQubits :
        Build([NoBuild EXCEPT !.fn = "z", !.qubit = qubit],
              Operation("SINGLE_GATE", pauli_z, qubit, 0, 0))

rx ==
    \E qubit \in BuilderQubits, theta \in Thetas :
        Build([NoBuild EXCEPT !.fn = "rx", !.qubit = qubit, !.theta = theta],
              Operation("SINGLE_GATE", Gates_rx(theta), qubit, 0, 0))

ry ==
    \E qubit \in BuilderQubits, theta \in Thetas :
        Build([NoBuild EXCEPT !.fn = "ry", !.qubit = qubit, !.theta = theta],
              Operation("SINGLE_GATE", Gates_ry(theta), qubit, 0, 0))

rz ==
    \E qubit \in BuilderQubits, theta \in Thetas :
        Build([NoBuild EXCEPT !.fn = "rz", !.qubit = qubit, !.theta = theta],
              Operation("SINGLE_GATE", Gates_rz(theta), qubit, 0, 0))

\* variant with control and target exchanged
cnot_operation_swapped(control, target) ==
    Operation("CONTROLLED_GATE", pauli_x, 0, target, control)

\* the operation cnot(control, target) appends
cnot_operation(control, target) ==
    Operation("CONTROLLED_GATE", pauli_x, 0, control, target)

cnot ==
    \E control \in BuilderQubits, target \in BuilderQubits :
        Build([NoBuild EXCEPT !.fn = "cnot", !.control = control, !.target = target],
              cnot_operation(control, target))

\* variant without the CONTROLLED_GATE case
DispatchSingleOnly(op) ==
    [fn |-> "apply_single_gate", gate |-> op.gate, qubit |-> op.qubit,
     control |-> 0, target |-> 0]

\* what execute() calls for one operation
Dispatch(op) ==
    IF op.type = "SINGLE_GATE"
    THEN [fn |-> "apply_single_gate", gate |-> op.gate, qubit |-> op.qubit,
          control |-> 0, target |-> 0]
    ELSE [fn |-> "apply_controlled_gate", gate |-> op.gate, qubit |-> 0,
          control |-> op.control, target |-> op.target]

Perform(amps, call) ==
    IF call.fn = "apply_single_gate"
    THEN apply_single_gate(amps, call.gate, call.qubit).new
    ELSE apply_controlled_gate(amps, call.gate, call.control, call.target).new

\* the run so far, one call further
Ran(run, call, amps) ==
    [state |-> amps, log |-> Append(run.log, call), trace |-> Append(run.trace, amps)]

Step(run, call) == Ran(run, call, Perform(run.state, call))

RECURSIVE ExecuteLoop(_, _, _)
ExecuteLoop(ops, k, run) ==
    IF k > Len(ops) THEN run
    ELSE ExecuteLoop(ops, k + 1, Step(run, Dispatch(ops[k])))

CtorCall(num_qubits) ==
    [fn |-> "QuantumState", gate |-> <<>>, qubit |-> num_qubits, control |-> 0, target |-> 0]

\* variant that keeps one state across calls instead of constructing it
execute_resumed(num_qubits, ops) ==
    LET state == IF returned = NoState THEN QuantumState(num_qubits)
                 ELSE returned.amplitudes_
    IN  ExecuteLoop(ops, 1, [state |-> state,
                             log   |-> <<CtorCall(num_qubits)>>,
                             trace |-> <<state>>])

\* the returned amplitudes, the calls made and the vector after each call
execute(num_qubits, ops) ==
    LET state == QuantumState(num_qubits)
    IN  ExecuteLoop(ops, 1, [state |-> state,
                             log   |-> <<CtorCall(num_qubits)>>,
                             trace |-> <<state>>])

\* return state (line 180), with the record of the run
Returns(num_qubits, run) ==
    /\ returned' = [num_qubits_ |-> num_qubits, amplitudes_ |-> run.state]
    /\ exec_log' = run.log
    /\ exec_trace' = run.trace

Execute ==
    /\ built.fn \notin {"none", "benchmark_ghz_state"}
    /\ nruns < MaxRuns
    /\ Returns(circuit_qubits, execute(circuit_qubits, operations_))
    /\ earlier' = returned
    /\ nruns' = nruns + 1
    /\ UNCHANGED <<circuit_qubits, operations_, built, state_vars>>

\* ------------------------------------------------------------------------
\* BenchmarkRunner::benchmark_ghz_state
\* ------------------------------------------------------------------------
\* for (size_t i = 1; i < num_qubits; ++i) circuit.cnot(0, i);
RECURSIVE GhzLoop(_, _, _)
GhzLoop(ops, i, num_qubits) ==
    IF i < num_qubits
    THEN GhzLoop(push_back(ops, cnot_operation(0, i)), i + 1, num_qubits)
    ELSE ops

\* circuit.h(0) and then the loop
GhzOperations(num_qubits) == GhzLoop(push_back(<<>>, h_operation(0)), 1, num_qubits)

\* builds the circuit in a local, executes it once and drops both
benchmark_ghz_state ==
    \E num_qubits \in 0..MaxGhzQubits :
        /\ built.fn = "none"
        /\ circuit_qubits' = num_qubits
        /\ operations_' = GhzOperations(num_qubits)
        /\ Returns(num_qubits, execute(num_qubits, GhzOperations(num_qubits)))
        /\ built' = [NoBuild EXCEPT !.fn = "benchmark_ghz_state"]
        /\ nruns' = 1
        /\ UNCHANGED <<earlier, state_vars>>

\* ------------------------------------------------------------------------
\* Specifications
\* ------------------------------------------------------------------------
Init ==
    /\ num_qubits_ = 0
    /\ amplitudes_ = <<>>
    /\ old = <<>>
    /\ last = NoCall
    /\ ncalls = 0
    /\ repeat = FALSE
    /\ circuit_qubits = 0
    /\ operations_ = <<>>
    /\ built = NoBuild
    /\ returned = NoState
    /\ earlier = NoState
    /\ exec_log = <<>>
    /\ exec_trace = <<>>
    /\ nruns = 0

NextState == NewState \/ ApplySingleGate \/ ApplyControlledGate \/ GetProbability

SpecState == Init /\ [][NextState]_vars

NextCircuit ==
    \/ NewCircuit
    \/ h
    \/ x
    \/ y
    \/ z
    \/ rx
    \/ ry
    \/ rz
    \/ cnot
    \/ Execute
    \/ benchmark_ghz_state

SpecCircuit == Init /\ [][NextCircuit]_vars

\* ------------------------------------------------------------------------
\* Properties of QuantumState (SpecState)
\* ------------------------------------------------------------------------
\* bit k of index i, for k below the number of qubits
IndexBit(i, k) == (i \div (2 ^ k)) % 2

\* g[r][c] * a + g[r][c'] * b in std::complex<double> arithmetic
Combine(g0, g1, a, b) == CAdd(CMul(g0, a), CMul(g1, b))

Support(amps) == {i \in DOMAIN amps : amps[i] # CZero}

\* C2: apply_single_gate(gate, q) with q < num_qubits sets, for every index i
\* whose bit q is 0 and j = i + 2^q, new[i] = g00*old[i] + g01*old[j] and
\* new[j] = g10*old[i] + g11*old[j], reading only the vector as it was before
\* the call, and writes every index of the vector exactly once.
C2_SingleGatePairs ==
    (last.fn = "apply_single_gate" /\ last.qubit < num_qubits_) =>
        /\ DOMAIN amplitudes_ = DOMAIN old
        /\ \A i \in DOMAIN old : last.writes[i] = 1
        /\ \A i \in DOMAIN old :
               IndexBit(i, last.qubit) = 0 =>
                   LET j == i + 2 ^ last.qubit
                       g == last.gate
                   IN  /\ j \in DOMAIN old
                       /\ amplitudes_[i] = Combine(g[1][1], g[1][2], old[i], old[j])
                       /\ amplitudes_[j] = Combine(g[2][1], g[2][2], old[i], old[j])

\* a Hadamard on an in-range qubit of a two-qubit superposition
C2_Witness ==
    /\ last.fn = "apply_single_gate"
    /\ last.qubit < num_qubits_
    /\ num_qubits_ = 2
    /\ last.gate = hadamard
    /\ Cardinality(Support(old)) >= 2
    /\ amplitudes_ # old

\* C3: apply_controlled_gate(gate, c, t) with c # t, both in range, leaves
\* every amplitude whose index has bit c = 0 unchanged and, on the indices
\* with bit c = 1, pairs i (bit t = 0) with i + 2^t and applies the 2x2
\* update of apply_single_gate to the pair.
C3_ControlledGateFrame ==
    (/\ last.fn = "apply_controlled_gate"
     /\ last.control < num_qubits_
     /\ last.target < num_qubits_
     /\ last.control # last.target) =>
        /\ DOMAIN amplitudes_ = DOMAIN old
        /\ \A i \in DOMAIN old :
               IndexBit(i, last.control) = 0 => amplitudes_[i] = old[i]
        /\ \A i \in DOMAIN old :
               (IndexBit(i, last.control) = 1 /\ IndexBit(i, last.target) = 0) =>
                   LET j == i + 2 ^ last.target
                       g == last.gate
                   IN  /\ j \in DOMAIN old
                       /\ amplitudes_[i] = Combine(g[1][1], g[1][2], old[i], old[j])
                       /\ amplitudes_[j] = Combine(g[2][1], g[2][2], old[i], old[j])

\* a controlled Hadamard that changes a state with weight on both halves
C3_Witness ==
    /\ last.fn = "apply_controlled_gate"
    /\ last.control < num_qubits_
    /\ last.target < num_qubits_
    /\ last.control # last.target
    /\ last.gate = hadamard
    /\ \E i \in Support(old) : IndexBit(i, last.control) = 0
    /\ amplitudes_ # old

\* C4: get_probability(i) returns re^2 + im^2 of amplitude i for i < 2^n,
\* returns 0.0 for i >= 2^n, and leaves the state untouched, on any state a
\* sequence of gate applications reaches.
C4_GetProbability ==
    last.fn = "get_probability" =>
        /\ amplitudes_ = old
        /\ last.state >= 2 ^ num_qubits_ => last.result = FZero
        /\ last.state < 2 ^ num_qubits_ =>
               LET a == amplitudes_[last.state]
               IN  last.result = FAdd(FMul(a.re, a.re), FMul(a.im, a.im))

\* after two gates, the probability of an amplitude with real and imaginary
\* part, neither of them zero
C4_Witness ==
    /\ last.fn = "get_probability"
    /\ ncalls = MaxCalls
    /\ last.state < 2 ^ num_qubits_
    /\ ~IsZero(amplitudes_[last.state].re)
    /\ ~IsZero(amplitudes_[last.state].im)
    /\ ~IsZero(last.result)

\* the same call made on the same qubit, once and then again
XTwice ==
    /\ last.fn = "apply_single_gate"
    /\ last.gate = pauli_x
    /\ last.qubit < num_qubits_
    /\ last'.fn = "apply_single_gate"
    /\ last'.gate = pauli_x
    /\ last'.qubit = last.qubit
    /\ ncalls' = ncalls + 1

\* i with bit k flipped
FlipBit(i, k) == IF IndexBit(i, k) = 0 THEN i + 2 ^ k ELSE i - 2 ^ k

\* C8: Pauli-X on an in-range qubit q exchanges amplitude i with amplitude
\* i xor 2^q without arithmetic on their values, and a second Pauli-X on the
\* same qubit returns every amplitude to exactly the value it had before the
\* first.
C8_PauliXInvolution ==
    /\ [](/\ last.fn = "apply_single_gate"
          /\ last.gate = pauli_x
          /\ last.qubit < num_qubits_
          => \A i \in DOMAIN old : amplitudes_[i] = old[FlipBit(i, last.qubit)])
    /\ [][XTwice => amplitudes_' = old]_vars

\* the second of two Pauli-X on one qubit, on a state with unequal inexact
\* amplitudes
C8_Witness ==
    /\ repeat
    /\ last.fn = "apply_single_gate"
    /\ last.gate = pauli_x
    /\ last.qubit < num_qubits_
    /\ amplitudes_ # old
    /\ \E i \in DOMAIN amplitudes_ :
           /\ ~IsZero(amplitudes_[i].re)
           /\ amplitudes_[i].re.m # One.m

\* C10: a single-qubit gate on a qubit index q with num_qubits <= q < 64, and
\* a controlled gate whose control or target is such an index or whose
\* control equals its target, leave the amplitude vector unchanged.
C10_OutOfRangeNoOp ==
    /\ (last.fn = "apply_single_gate" /\ last.qubit >= num_qubits_)
           => (amplitudes_ = old /\ \A i \in DOMAIN old : last.writes[i] = 0)
    /\ (/\ last.fn = "apply_controlled_gate"
        /\ \/ last.control >= num_qubits_
           \/ last.target >= num_qubits_
           \/ last.control = last.target)
           => (amplitudes_ = old /\ \A i \in DOMAIN old : last.writes[i] = 0)

\* a controlled Hadamard with control = target, in range, on a state with
\* weight where the control bit is 1
C10_Witness ==
    /\ last.fn = "apply_controlled_gate"
    /\ last.gate = hadamard
    /\ last.control = last.target
    /\ last.control < num_qubits_
    /\ \E i \in Support(old) : IndexBit(i, last.control) = 1

\* ------------------------------------------------------------------------
\* Properties of QuantumCircuit (SpecCircuit)
\* ------------------------------------------------------------------------
\* |0...0> over n qubits
BasisZero(n) == [i \in 0..(2 ^ n - 1) |-> IF i = 0 THEN Complex(One, FZero) ELSE CZero]

Executed == returned # NoState

\* C1: for every n >= 0 a freshly constructed QuantumState has 2^n amplitudes,
\* (1,0) at index 0 and (0,0) at every other index, and execute() on a
\* circuit with no operations returns exactly this state.
C1_FreshStateIsBasisZero ==
    Executed =>
        /\ DOMAIN exec_trace[1] = 0..(2 ^ circuit_qubits - 1)
        /\ exec_trace[1][0] = Complex(One, FZero)
        /\ \A i \in DOMAIN exec_trace[1] : i # 0 => exec_trace[1][i] = CZero
        /\ operations_ = <<>> =>
               /\ returned.num_qubits_ = circuit_qubits
               /\ returned.amplitudes_ = BasisZero(circuit_qubits)

\* an empty circuit over the largest qubit count, executed
C1_Witness ==
    /\ Executed
    /\ built.fn = "QuantumCircuit"
    /\ operations_ = <<>>
    /\ circuit_qubits = MaxQubits
    /\ Cardinality(DOMAIN returned.amplitudes_) = 2 ^ MaxQubits

BuilderNames == {"h", "x", "y", "z", "rx", "ry", "rz", "cnot"}

\* the operation the builder call recorded in b is to append
Appended(b) ==
    CASE b.fn = "h"    -> Operation("SINGLE_GATE", hadamard, b.qubit, 0, 0)
      [] b.fn = "x"    -> Operation("SINGLE_GATE", pauli_x, b.qubit, 0, 0)
      [] b.fn = "y"    -> Operation("SINGLE_GATE", pauli_y, b.qubit, 0, 0)
      [] b.fn = "z"    -> Operation("SINGLE_GATE", pauli_z, b.qubit, 0, 0)
      [] b.fn = "rx"   -> Operation("SINGLE_GATE", Gates_rx(b.theta), b.qubit, 0, 0)
      [] b.fn = "ry"   -> Operation("SINGLE_GATE", Gates_ry(b.theta), b.qubit, 0, 0)
      [] b.fn = "rz"   -> Operation("SINGLE_GATE", Gates_rz(b.theta), b.qubit, 0, 0)
      [] b.fn = "cnot" -> Operation("CONTROLLED_GATE", pauli_x, 0, b.control, b.target)

\* execute() made one call per operation, in order, each on the vector the
\* call before it left, starting from the constructor's vector
InOrder ==
    Executed =>
        /\ Len(exec_log) = Len(operations_) + 1
        /\ Len(exec_trace) = Len(operations_) + 1
        /\ exec_log[1].fn = "QuantumState"
        /\ exec_log[1].qubit = circuit_qubits
        /\ exec_trace[1] = BasisZero(circuit_qubits)
        /\ \A k \in 1..Len(operations_) :
               LET op   == operations_[k]
                   call == exec_log[k + 1]
               IN  /\ op.type \in {"SINGLE_GATE", "CONTROLLED_GATE"}
                   /\ op.type = "SINGLE_GATE" =>
                          /\ call.fn = "apply_single_gate"
                          /\ call.gate = op.gate
                          /\ call.qubit = op.qubit
                          /\ exec_trace[k + 1] =
                                 apply_single_gate(exec_trace[k], op.gate, op.qubit).new
                   /\ op.type = "CONTROLLED_GATE" =>
                          /\ call.fn = "apply_controlled_gate"
                          /\ call.gate = op.gate
                          /\ call.control = op.control
                          /\ call.target = op.target
                          /\ exec_trace[k + 1] =
                                 apply_controlled_gate(exec_trace[k], op.gate,
                                                       op.control, op.target).new
        /\ returned.num_qubits_ = circuit_qubits
        /\ returned.amplitudes_ = exec_trace[Len(exec_trace)]

LastAppended ==
    built.fn \in BuilderNames =>
        /\ Len(operations_) >= 1
        /\ operations_[Len(operations_)] = Appended(built)

AppendOnly ==
    (built.fn # "none" /\ operations_' # operations_) =>
        /\ built'.fn \in BuilderNames
        /\ Len(operations_') = Len(operations_) + 1
        /\ \A k \in 1..Len(operations_) : operations_'[k] = operations_[k]

\* C5: execute() starts from a new all-zero basis state of the circuit's
\* qubit count and applies every operation exactly once in the order of the
\* builder calls, SINGLE_GATE through apply_single_gate(gate, qubit) and
\* CONTROLLED_GATE through apply_controlled_gate(gate, control, target);
\* each builder call appends exactly one operation at the end and changes no
\* earlier one.
C5_ExecuteInOrder ==
    /\ [](InOrder /\ LastAppended)
    /\ [][AppendOnly]_vars

\* a full circuit that mixes both kinds of operation, executed
C5_Witness ==
    /\ Executed
    /\ Len(operations_) = MaxOps
    /\ operations_[1].gate = hadamard
    /\ operations_[2].type = "CONTROLLED_GATE"
    /\ operations_[3].type = "SINGLE_GATE"
    /\ exec_trace[2] # exec_trace[1]
    /\ exec_trace[3] # exec_trace[2]
    /\ exec_trace[4] # exec_trace[3]

ExecuteStep == built.fn # "none" /\ nruns' = nruns + 1

Tolerance == [neg |-> FALSE, m |-> <<5781, 8347, 8382, 1099>>, e |-> -82]

\* 0.5
OneHalf == [neg |-> FALSE, m |-> <<0, 0, 0, 1024>>, e |-> -53]

\* |u - v| <= 1e-9 in double arithmetic
Within(u, v) == FLeq(FAbs(FSub(u, v)), Tolerance)

\* get_probability(i) for every index i of the vector
Probabilities(amps) == [i \in DOMAIN amps |-> get_probability(amps, i)]

\* p[0] + p[1] + ... in index order
RECURSIVE SumFrom(_, _, _)
SumFrom(p, i, acc) ==
    IF i \notin DOMAIN p THEN acc
    ELSE SumFrom(p, i + 1, FAdd(acc, p[i]))

TotalProbability(p) == SumFrom(p, 0, FZero)

\* every operation of the circuit names qubits below the qubit count
InRange ==
    \A k \in 1..Len(operations_) :
        LET op == operations_[k]
        IN  IF op.type = "SINGLE_GATE" THEN op.qubit < circuit_qubits
            ELSE op.control < circuit_qubits /\ op.target < circuit_qubits

Normalised(p) == Within(TotalProbability(p), One)

GhzCircuit(n) ==
    [k \in 1..n |-> IF k = 1 THEN Operation("SINGLE_GATE", hadamard, 0, 0, 0)
                    ELSE Operation("CONTROLLED_GATE", pauli_x, 0, 0, k - 1)]

\* a GHZ circuit over at least two qubits has run
GhzRun ==
    /\ Executed
    /\ circuit_qubits >= 2
    /\ built.fn = "benchmark_ghz_state" \/ operations_ = GhzCircuit(circuit_qubits)

\* the amplitudes are nonzero at indices 0 and top and nowhere else
MassAt(amps, top) == Support(amps) = {0, top}

\* after cnot(0,k), for every k, the mass sits at 0 and 2^(k+1) - 1
GhzIntermediate ==
    \A k \in 1..(circuit_qubits - 1) : MassAt(exec_trace[k + 2], 2 ^ (k + 1) - 1)

\* probability 0 at every index but 0 and 2^n - 1
GhzZeroElsewhere ==
    \A i \in DOMAIN returned.amplitudes_ :
        i \notin {0, 2 ^ circuit_qubits - 1} =>
            get_probability(returned.amplitudes_, i) = FZero

\* C9 as stated: the GHZ circuit yields probability exactly 1/2 at indices
\* 0 and 2^n - 1 and 0 elsewhere, the mass after each cnot(0,k) at 0 and
\* 2^(k+1) - 1.
C9_AsStated ==
    GhzRun =>
        /\ operations_ = GhzCircuit(circuit_qubits)
        /\ get_probability(returned.amplitudes_, 0) = OneHalf
        /\ get_probability(returned.amplitudes_, 2 ^ circuit_qubits - 1) = OneHalf
        /\ GhzZeroElsewhere
        /\ GhzIntermediate

\* C9 (amended): the GHZ circuit yields nonzero probability only at indices
\* 0 and 2^n - 1, the two equal and within floating-point tolerance of 1/2,
\* and exactly 0 elsewhere; after each cnot(0,k) the nonzero mass sits
\* exactly at index 0 and index 2^(k+1) - 1.
C9_GhzWithinTolerance ==
    GhzRun =>
        /\ operations_ = GhzCircuit(circuit_qubits)
        /\ Within(get_probability(returned.amplitudes_, 0), OneHalf)
        /\ get_probability(returned.amplitudes_, 2 ^ circuit_qubits - 1)
               = get_probability(returned.amplitudes_, 0)
        /\ GhzZeroElsewhere
        /\ GhzIntermediate

\* benchmark_ghz_state has run over the largest qubit count
C9_Witness ==
    /\ GhzRun
    /\ built.fn = "benchmark_ghz_state"
    /\ circuit_qubits = MaxGhzQubits
    /\ Len(exec_trace) = MaxGhzQubits + 1
    /\ get_probability(returned.amplitudes_, 2 ^ MaxGhzQubits - 1) # FZero

====
